---- MODULE Spec2Model ----
(***************************************************************************)
(* Campusportalen backend (src/main.py, src/schemas.py): login, the two    *)
(* authorization gates, meals, orders, event signups and the statistics    *)
(* overview, over a document store.                                        *)
(*                                                                         *)
(* Conventions.                                                            *)
(*  - The clock `now` counts minutes.                                      *)
(*  - Python floats (prices, kilograms) are fixed-point thousandths.       *)
(*  - Optional[T] is a sequence: << >> is None, <<v>> is the value v.      *)
(*  - A collection is the sequence of its documents in insertion order;    *)
(*    a document's _id is its position at insertion, str(_id) is           *)
(*    ToString(_id).                                                       *)
(*  - The Authorization header is << >> (absent) or <<scheme, token>>,     *)
(*    the text "scheme token" split at its first blank.                    *)
(***************************************************************************)
EXTENDS Integers, Sequences, FiniteSets, TLC

VARIABLES
    now,            \* datetime.now(timezone.utc), in minutes
    env_steps,      \* clock advances and out-of-band updates so far
    users,          \* db["users"]
    issued,         \* tokens handed to clients, each with its issue time
    meals,          \* db["meals"]
    events,         \* db["events"]
    news,           \* db["news"]
    orders,         \* db["orders"]
    event_signups,  \* db["event_signups"]
    inflight,       \* signup requests between their find and their insert
    req,            \* the request of the exchange just completed (NoRequest: none)
    resp,           \* its response, about to be sent
    current_user    \* what get_current_user yielded for it (<< >>: nothing)

vars == <<now, env_steps, users, issued, meals, events, news, orders,
          event_signups, inflight, req, resp, current_user>>

store == <<users, meals, events, news, orders, event_signups>>

(***************************************************************************)
(* Bounds of the model.                                                    *)
(***************************************************************************)
MaxEnvSteps == 1    \* clock advances and out-of-band updates in a behaviour
MaxTokens == 1      \* tokens clients hold at once
MaxDocs == 2        \* documents in the database, users aside
MaxInflight == 2    \* signup requests in progress at once

(***************************************************************************)
(* Configuration (main.py:11-17).                                          *)
(***************************************************************************)
db == "connected"
JWT_SECRET == "dev-secret-change-me"
JWT_ALG == "HS256"
ACCESS_TOKEN_EXPIRE_MINUTES == 60 * 8

(***************************************************************************)
(* The store: find_one, find, insert.                                      *)
(***************************************************************************)
\* A query is a record of field = value conditions ({"_id": {"$exists": True}}
\* holds of every document, so it adds no condition).
matches(doc, query) ==
    \A k \in DOMAIN query : k \in DOMAIN doc /\ doc[k] = query[k]

find(coll, query) == SelectSeq(coll, LAMBDA doc : matches(doc, query))

\* {field: {"$in": values}}
find_in(coll, field, values) ==
    SelectSeq(coll, LAMBDA doc : field \in DOMAIN doc /\ doc[field] \in values)

find_one(coll, query) ==
    LET hits == find(coll, query)
    IN  IF hits = << >> THEN << >> ELSE <<Head(hits)>>

create_document(coll, data) ==
    LET id == Len(coll) + 1
    IN  [inserted_id |-> ToString(id),
         collection  |-> Append(coll, [_id |-> id] @@ data)]

(***************************************************************************)
(* Passwords.  A bcrypt digest determines the plaintext it was made from;  *)
(* verify recomputes and compares.                                         *)
(***************************************************************************)
pwd_hash(plain) == <<"bcrypt", plain>>

verify_password(plain_password, password_hash) ==
    password_hash = pwd_hash(plain_password)

(***************************************************************************)
(* Tokens.  jwt.encode signs the payload with the secret; jwt.decode       *)
(* checks the signature first and the expiry second.                       *)
(***************************************************************************)
jwt_sign(payload, key, alg) == [alg |-> alg, key |-> key, msg |-> payload]

jwt_encode(payload, key, alg) ==
    [payload |-> payload, signature |-> jwt_sign(payload, key, alg)]

jwt_decode(token, key, alg) ==
    IF token.signature # jwt_sign(token.payload, key, alg)
    THEN "InvalidTokenError"
    ELSE IF token.payload.exp <= now THEN "ExpiredSignatureError"
    ELSE "ok"

\* Mutant: the lifetime is one hour (the "* 8" lost).
create_access_token_one_hour(data) ==
    LET expire == now + 60
    IN  jwt_encode(data @@ [exp |-> expire], JWT_SECRET, JWT_ALG)

create_access_token(data) ==
    LET expire == now + ACCESS_TOKEN_EXPIRE_MINUTES
    IN  jwt_encode(data @@ [exp |-> expire], JWT_SECRET, JWT_ALG)

(***************************************************************************)
(* Responses.                                                              *)
(***************************************************************************)
HTTPException(status_code, detail) ==
    [status |-> status_code, body |-> [detail |-> detail]]

Ok(body) == [status |-> 200, body |-> body]

(***************************************************************************)
(* Gate 1: get_current_user.  Yields [error, user]: the exception raised   *)
(* (<< >> if none) and the identity handed to the handler.                 *)
(***************************************************************************)
get_current_user(authorization) ==
    IF authorization = << >> \/ authorization[1] # "Bearer"
    THEN [error |-> <<HTTPException(401, "Not authenticated")>>, user |-> << >>]
    ELSE LET token   == authorization[2]
             outcome == jwt_decode(token, JWT_SECRET, JWT_ALG)
             payload == token.payload
         IN  IF outcome = "ExpiredSignatureError"
             THEN [error |-> <<HTTPException(401, "Token expired")>>, user |-> << >>]
             ELSE IF outcome = "InvalidTokenError" \/ payload.sub = ""
             THEN [error |-> <<HTTPException(401, "Invalid token")>>, user |-> << >>]
             ELSE [error |-> << >>,
                   user  |-> <<[_id   |-> payload.sub,
                                role  |-> payload.role,
                                email |-> payload.email,
                                name  |-> payload.name]>>]

(***************************************************************************)
(* Gate 2: require_admin, composed on gate 1.                              *)
(***************************************************************************)
\* Mutant: the role is never compared.
require_admin_any_role(authorization) == get_current_user(authorization)

\* Mutant: the role is read from the user store instead of the token.
require_admin_stored_role(authorization) ==
    LET dep    == get_current_user(authorization)
        stored == IF dep.error # << >> THEN << >>
                  ELSE find_one(users, [email |-> dep.user[1].email, active |-> TRUE])
    IN  IF dep.error # << >> THEN dep
        ELSE IF stored = << >> \/ stored[1].role # "admin"
        THEN [error |-> <<HTTPException(403, "Admin access required")>>,
              user  |-> dep.user]
        ELSE dep

require_admin(authorization) ==
    LET dep == get_current_user(authorization)
    IN  IF dep.error # << >> THEN dep
        ELSE IF dep.user[1].role # "admin"
        THEN [error |-> <<HTTPException(403, "Admin access required")>>,
              user  |-> dep.user]
        ELSE dep

(***************************************************************************)
(* Fixed-point arithmetic: round(x, 2) on thousandths, to the nearest      *)
(* hundredth (a tie goes to the even hundredth).                           *)
(***************************************************************************)
round2(x) ==
    LET r    == x % 10
        down == x - r
    IN  IF r < 5 THEN down
        ELSE IF r > 5 THEN down + 10
        ELSE IF (down \div 10) % 2 = 0 THEN down ELSE down + 10

RECURSIVE sum_quantity(_)
sum_quantity(docs) ==
    IF docs = << >> THEN 0
    ELSE (IF "quantity" \in DOMAIN Head(docs) THEN Head(docs).quantity ELSE 1)
         + sum_quantity(Tail(docs))

RECURSIVE sum_co2(_)
sum_co2(docs) ==
    IF docs = << >> THEN 0
    ELSE (LET co2 == Head(docs).co2_kg_per_portion
          IN  IF co2 # << >> /\ co2[1] # 0 THEN co2[1] ELSE 0)
         + sum_co2(Tail(docs))

(***************************************************************************)
(* What clients send.                                                      *)
(***************************************************************************)
Emails == {"admin@campus.dk", "elev@campus.dk", "nobody@campus.dk"}
Passwords == {"admin123", "elev123"}
LoginRequests == [email : Emails, password : Passwords]

Roles == {"admin", "elev"}

\* A token whose payload was edited after signing: the role raised to admin.
Tampered(token) == [token EXCEPT !.payload.role = "admin"]

Headers ==
    {<< >>}
    \cup {<<"Bearer", r.token>> : r \in issued}
    \cup {<<"Basic", r.token>> : r \in issued}
    \cup {<<"Bearer", Tampered(r.token)>> : r \in issued}

MealIns ==
    { [price |-> 2000, is_today_special |-> TRUE,  co2_kg_per_portion |-> <<1000>>],
      [price |-> 3500, is_today_special |-> FALSE, co2_kg_per_portion |-> << >>] }
EventIns == { [title |-> "Fest"] }
NewsIns == { [title |-> "Nyt", text |-> "Tekst"] }
EventIds == {"1", "2"}
MealIdInputs == {"1", "2"}
Quantities == {-1, 0, 1, 2}
OrderIns == [meal_id : MealIdInputs, quantity : Quantities]
SignupIns == [event_id : EventIds]
OrderStatuses == {"created", "paid", "cancelled", "fulfilled"}
Workers == 1..MaxInflight

NoRequest == [op |-> "none", authorization |-> << >>, body |-> << >>]
NoResponse == [status |-> 0, body |-> << >>]

Request(op, authorization, body) ==
    [op |-> op, authorization |-> authorization, body |-> body]

\* No exchange is waiting for its response to be sent.
Ready == req = NoRequest

DocCount ==
    Len(meals) + Len(events) + Len(news) + Len(orders) + Len(event_signups)

(***************************************************************************)
(* Initial state: an empty database, no request served.                    *)
(***************************************************************************)
Init ==
    /\ now = 0
    /\ env_steps = 0
    /\ users = << >>
    /\ issued = {}
    /\ meals = << >>
    /\ events = << >>
    /\ news = << >>
    /\ orders = << >>
    /\ event_signups = << >>
    /\ inflight = [w \in Workers |-> << >>]
    /\ req = NoRequest
    /\ resp = NoResponse
    /\ current_user = << >>

(***************************************************************************)
(* The environment: the clock, out-of-band changes of stored users and     *)
(* orders, clients dropping tokens.                                        *)
(***************************************************************************)
\* The clock moves to just before or just after a lifetime later.
TickSteps == {ACCESS_TOKEN_EXPIRE_MINUTES - 1, ACCESS_TOKEN_EXPIRE_MINUTES + 1}

Tick(d) ==
    /\ Ready
    /\ env_steps < MaxEnvSteps
    /\ now' = now + d
    /\ env_steps' = env_steps + 1
    /\ UNCHANGED <<users, issued, meals, events, news, orders,
                   event_signups, inflight, req, resp, current_user>>

UpdateUser(i, role, active) ==
    /\ Ready
    /\ env_steps < MaxEnvSteps
    /\ i \in DOMAIN users
    /\ <<role, active>> # <<users[i].role, users[i].active>>
    /\ users' = [users EXCEPT ![i].role = role, ![i].active = active]
    /\ env_steps' = env_steps + 1
    /\ UNCHANGED <<now, issued, meals, events, news, orders,
                   event_signups, inflight, req, resp, current_user>>

UpdateOrderStatus(i, status) ==
    /\ Ready
    /\ i \in DOMAIN orders
    /\ status # orders[i].status
    /\ orders' = [orders EXCEPT ![i].status = status]
    /\ UNCHANGED <<now, env_steps, users, issued, meals, events, news,
                   event_signups, inflight, req, resp, current_user>>

DiscardToken(r) ==
    /\ Ready
    /\ r \in issued
    /\ issued' = issued \ {r}
    /\ UNCHANGED <<now, env_steps, users, meals, events, news, orders,
                   event_signups, inflight, req, resp, current_user>>

\* The response of the completed exchange is sent.
respond ==
    /\ req # NoRequest
    /\ req' = NoRequest
    /\ resp' = NoResponse
    /\ current_user' = << >>
    /\ UNCHANGED <<now, env_steps, users, issued, meals, events, news, orders,
                   event_signups, inflight>>

(***************************************************************************)
(* POST /dev/seed                                                          *)
(***************************************************************************)
seed_users ==
    << [_id |-> 1, email |-> "admin@campus.dk", name |-> "Admin",
        role |-> "admin", password_hash |-> pwd_hash("admin123"), active |-> TRUE],
       [_id |-> 2, email |-> "elev@campus.dk", name |-> "Elev",
        role |-> "elev", password_hash |-> pwd_hash("elev123"), active |-> TRUE] >>

seed ==
    /\ Ready
    /\ req' = Request("seed", << >>, << >>)
    /\ current_user' = << >>
    /\ IF db = "none"
       THEN /\ resp' = HTTPException(500, "Database not configured")
            /\ UNCHANGED users
       ELSE IF Len(users) > 0
       THEN /\ resp' = Ok([status |-> "already_seeded"])
            /\ UNCHANGED users
       ELSE /\ users' = seed_users
            /\ resp' = Ok([status |-> "seeded",
                           users  |-> <<"admin@campus.dk / admin123",
                                        "elev@campus.dk / elev123">>])
    /\ UNCHANGED <<now, env_steps, issued, meals, events, news, orders,
                   event_signups, inflight>>

(***************************************************************************)
(* POST /auth/login                                                        *)
(***************************************************************************)
\* Mutant: inactive users are found too.
login_query_any(r) == [email |-> r.email]

login_query(r) == [email |-> r.email, active |-> TRUE]

\* Mutant: every token carries the default role.
login_claims_default_role(user) ==
    [sub   |-> ToString(user._id),
     role  |-> "elev",
     email |-> user.email,
     name  |-> user.name]

login_claims(user) ==
    [sub   |-> ToString(user._id),
     role  |-> user.role,
     email |-> user.email,
     name  |-> user.name]

login_result(r) ==
    LET user == find_one(users, login_query(r))
    IN  IF db = "none"
        THEN [response |-> HTTPException(500, "Database not configured"),
              token |-> << >>]
        ELSE IF user = << >>
        THEN [response |-> HTTPException(401, "Invalid credentials"),
              token |-> << >>]
        ELSE IF ~verify_password(r.password, user[1].password_hash)
        THEN [response |-> HTTPException(401, "Invalid credentials"),
              token |-> << >>]
        ELSE LET token == create_access_token(login_claims(user[1]))
             IN  [response |-> Ok([access_token |-> token, token_type |-> "bearer"]),
                  token |-> <<token>>]

login(r) ==
    LET out == login_result(r)
        new == {[token |-> out.token[i], at |-> now] : i \in DOMAIN out.token}
    IN  /\ Ready
        /\ Cardinality(issued \cup new) <= MaxTokens
        /\ req' = Request("login", << >>, r)
        /\ resp' = out.response
        /\ current_user' = << >>
        /\ issued' = issued \cup new
        /\ UNCHANGED <<now, env_steps, users, meals, events, news, orders,
                       event_signups, inflight>>

(***************************************************************************)
(* POST /admin/meals                                                       *)
(***************************************************************************)
create_meal(authorization, meal) ==
    LET dep == require_admin(authorization)
        ins == create_document(meals, meal)
    IN  /\ Ready
        /\ dep.error = << >> => DocCount < MaxDocs
        /\ req' = Request("create_meal", authorization, meal)
        /\ current_user' = dep.user
        /\ IF dep.error # << >>
           THEN resp' = dep.error[1] /\ UNCHANGED meals
           ELSE IF db = "none"
           THEN resp' = HTTPException(500, "Database not configured")
                /\ UNCHANGED meals
           ELSE resp' = Ok([id |-> ins.inserted_id]) /\ meals' = ins.collection
        /\ UNCHANGED <<now, env_steps, users, issued, events, news, orders,
                       event_signups, inflight>>

(***************************************************************************)
(* POST /admin/events                                                      *)
(***************************************************************************)
create_event(authorization, event) ==
    LET dep == require_admin(authorization)
        ins == create_document(events, event @@ [created_by |-> dep.user[1]._id])
    IN  /\ Ready
        /\ dep.error = << >> => DocCount < MaxDocs
        /\ req' = Request("create_event", authorization, event)
        /\ current_user' = dep.user
        /\ IF dep.error # << >>
           THEN resp' = dep.error[1] /\ UNCHANGED events
           ELSE resp' = Ok([id |-> ins.inserted_id]) /\ events' = ins.collection
        /\ UNCHANGED <<now, env_steps, users, issued, meals, news, orders,
                       event_signups, inflight>>

(***************************************************************************)
(* POST /admin/news                                                        *)
(***************************************************************************)
create_news(authorization, item) ==
    LET dep == require_admin(authorization)
        ins == create_document(news, item @@ [created_by |-> dep.user[1]._id])
    IN  /\ Ready
        /\ dep.error = << >> => DocCount < MaxDocs
        /\ req' = Request("create_news", authorization, item)
        /\ current_user' = dep.user
        /\ IF dep.error # << >>
           THEN resp' = dep.error[1] /\ UNCHANGED news
           ELSE resp' = Ok([id |-> ins.inserted_id]) /\ news' = ins.collection
        /\ UNCHANGED <<now, env_steps, users, issued, meals, events, orders,
                       event_signups, inflight>>

(***************************************************************************)
(* GET /admin/events/{event_id}/signups                                    *)
(***************************************************************************)
serialize(docs) == [i \in DOMAIN docs |-> [docs[i] EXCEPT !._id = ToString(@)]]

get_event_signups(authorization, event_id) ==
    LET dep == require_admin(authorization)
    IN  /\ Ready
        /\ req' = Request("get_event_signups", authorization, [event_id |-> event_id])
        /\ current_user' = dep.user
        /\ IF dep.error # << >>
           THEN resp' = dep.error[1]
           ELSE IF db = "none"
           THEN resp' = HTTPException(500, "Database not configured")
           ELSE resp' = Ok([signups |->
                              serialize(find(event_signups, [event_id |-> event_id]))])
        /\ UNCHANGED <<now, env_steps, users, issued, meals, events, news,
                       orders, event_signups, inflight>>

(***************************************************************************)
(* POST /orders                                                            *)
(***************************************************************************)
order_document(order, user) ==
    LET meal_doc == find_one(meals, [is_today_special |-> TRUE])
    IN  [user_id     |-> user._id,
         meal_id     |-> order.meal_id,
         quantity    |-> order.quantity,
         total_price |-> IF meal_doc # << >> /\ "price" \in DOMAIN meal_doc[1]
                         THEN round2(meal_doc[1].price * order.quantity)
                         ELSE 0,
         status      |-> "created"]

create_order(authorization, order) ==
    LET dep == get_current_user(authorization)
        ins == create_document(orders, order_document(order, dep.user[1]))
    IN  /\ Ready
        /\ dep.error = << >> => DocCount < MaxDocs
        /\ req' = Request("create_order", authorization, order)
        /\ current_user' = dep.user
        /\ IF dep.error # << >>
           THEN resp' = dep.error[1] /\ UNCHANGED orders
           ELSE IF db = "none"
           THEN resp' = HTTPException(500, "Database not configured")
                /\ UNCHANGED orders
           ELSE resp' = Ok([id |-> ins.inserted_id]) /\ orders' = ins.collection
        /\ UNCHANGED <<now, env_steps, users, issued, meals, events, news,
                       event_signups, inflight>>

(***************************************************************************)
(* POST /events/signup, in two steps: the gate and find_one, then          *)
(* create_document.  Worker w serves the request in between.               *)
(***************************************************************************)
\* Mutant: the query forgets the user.
signup_query_event_only(data, user) == [event_id |-> data.event_id]

signup_query(data, user) == [event_id |-> data.event_id, user_id |-> user._id]

signup_document(data, user) == [event_id |-> data.event_id, user_id |-> user._id]

signup_event_find(w, authorization, data) ==
    LET dep    == get_current_user(authorization)
        exists == find_one(event_signups, signup_query(data, dep.user[1]))
    IN  /\ Ready
        /\ inflight[w] = << >>
        /\ IF dep.error # << >>
           THEN /\ req' = Request("signup_event", authorization, data)
                /\ resp' = dep.error[1]
                /\ current_user' = dep.user
                /\ UNCHANGED inflight
           ELSE IF exists # << >>
           THEN /\ req' = Request("signup_event", authorization, data)
                /\ resp' = Ok([status |-> "already_signed"])
                /\ current_user' = dep.user
                /\ UNCHANGED inflight
           ELSE /\ inflight' = [inflight EXCEPT ![w] =
                       <<[authorization |-> authorization, data |-> data,
                          user |-> dep.user[1]]>>]
                /\ UNCHANGED <<req, resp, current_user>>
        /\ UNCHANGED <<now, env_steps, users, issued, meals, events, news,
                       orders, event_signups>>

signup_event_insert(w) ==
    /\ Ready
    /\ inflight[w] # << >>
    /\ DocCount < MaxDocs
    /\ LET r   == inflight[w][1]
           ins == create_document(event_signups, signup_document(r.data, r.user))
       IN  /\ event_signups' = ins.collection
           /\ req' = Request("signup_event", r.authorization, r.data)
           /\ resp' = Ok([id |-> ins.inserted_id])
           /\ current_user' = <<r.user>>
    /\ inflight' = [inflight EXCEPT ![w] = << >>]
    /\ UNCHANGED <<now, env_steps, users, issued, meals, events, news, orders>>

(***************************************************************************)
(* GET /stats                                                              *)
(***************************************************************************)
WASTE_KG_PER_PORTION == 150

RECURSIVE sum_waste(_)
sum_waste(docs) ==
    IF docs = << >> THEN 0
    ELSE WASTE_KG_PER_PORTION
           * (IF "quantity" \in DOMAIN Head(docs) THEN Head(docs).quantity ELSE 1)
         + sum_waste(Tail(docs))

\* Mutant: the waste estimate counts created orders too.
stats_body_waste_over_created ==
    [portions_sold  |-> sum_quantity(find_in(orders, "status",
                                             {"created", "paid", "fulfilled"})),
     co2_saved_kg   |-> round2(sum_co2(meals)),
     waste_saved_kg |-> round2(sum_waste(find_in(orders, "status",
                                                 {"created", "paid", "fulfilled"})))]

stats_body ==
    [portions_sold  |-> sum_quantity(find_in(orders, "status",
                                             {"created", "paid", "fulfilled"})),
     co2_saved_kg   |-> round2(sum_co2(meals)),
     waste_saved_kg |-> round2(sum_waste(find_in(orders, "status",
                                                 {"paid", "fulfilled"})))]

stats_overview ==
    /\ Ready
    /\ req' = Request("stats_overview", << >>, << >>)
    /\ resp' = Ok(stats_body)
    /\ current_user' = << >>
    /\ UNCHANGED <<now, env_steps, users, issued, meals, events, news, orders,
                   event_signups, inflight>>

(***************************************************************************)
(* Specifications.                                                         *)
(***************************************************************************)
AuthNext ==
    \/ \E d \in TickSteps : Tick(d)
    \/ \E i \in DOMAIN users, role \in Roles, active \in BOOLEAN : UpdateUser(i, role, active)
    \/ seed
    \/ \E r \in LoginRequests : login(r)
    \/ \E h \in Headers, m \in MealIns : create_meal(h, m)
    \/ \E h \in Headers, e \in EventIns : create_event(h, e)
    \/ \E h \in Headers, n \in NewsIns : create_news(h, n)
    \/ \E h \in Headers, e \in EventIds : get_event_signups(h, e)
    \/ respond

AuthSpec == Init /\ [][AuthNext]_vars

\* Event signups, the two steps of concurrent requests interleaving.
SignupNext ==
    \/ \E r \in issued : DiscardToken(r)
    \/ seed
    \/ \E r \in LoginRequests : login(r)
    \/ \E w \in Workers, h \in Headers, d \in SignupIns : signup_event_find(w, h, d)
    \/ \E w \in Workers : signup_event_insert(w)
    \/ respond

SignupSpec == Init /\ [][SignupNext]_vars

\* Event signups handled one after another: a request starts only when no
\* other is between its two steps.
Idle == \A w \in Workers : inflight[w] = << >>

SeqSignupNext ==
    \/ \E r \in issued : DiscardToken(r)
    \/ seed
    \/ \E r \in LoginRequests : login(r)
    \/ \E w \in Workers, h \in Headers, d \in SignupIns :
           Idle /\ signup_event_find(w, h, d)
    \/ \E w \in Workers : signup_event_insert(w)
    \/ respond

SeqSignupSpec == Init /\ [][SeqSignupNext]_vars

\* Meals and orders.
OrderNext ==
    \/ seed
    \/ \E r \in LoginRequests : login(r)
    \/ \E h \in Headers, m \in MealIns : create_meal(h, m)
    \/ \E h \in Headers, o \in OrderIns : create_order(h, o)
    \/ respond

OrderSpec == Init /\ [][OrderNext]_vars

\* Orders, their status changes and the statistics, from the state after
\* seed and the admin's login.
StatsInit ==
    /\ now = 0
    /\ env_steps = 0
    /\ users = seed_users
    /\ issued = {[token |-> create_access_token(login_claims(seed_users[1])),
                  at |-> now]}
    /\ meals = << >>
    /\ events = << >>
    /\ news = << >>
    /\ orders = << >>
    /\ event_signups = << >>
    /\ inflight = [w \in Workers |-> << >>]
    /\ req = NoRequest
    /\ resp = NoResponse
    /\ current_user = << >>

StatsNext ==
    \/ \E h \in Headers, o \in OrderIns : create_order(h, o)
    \/ \E i \in DOMAIN orders, s \in OrderStatuses : UpdateOrderStatus(i, s)
    \/ stats_overview
    \/ respond

StatsSpec == StatsInit /\ [][StatsNext]_vars

\* The whole service.
Next ==
    \/ \E d \in TickSteps : Tick(d)
    \/ \E i \in DOMAIN users, role \in Roles, active \in BOOLEAN : UpdateUser(i, role, active)
    \/ \E i \in DOMAIN orders, s \in OrderStatuses : UpdateOrderStatus(i, s)
    \/ \E r \in issued : DiscardToken(r)
    \/ seed
    \/ \E r \in LoginRequests : login(r)
    \/ \E h \in Headers, m \in MealIns : create_meal(h, m)
    \/ \E h \in Headers, e \in EventIns : create_event(h, e)
    \/ \E h \in Headers, n \in NewsIns : create_news(h, n)
    \/ \E h \in Headers, e \in EventIds : get_event_signups(h, e)
    \/ \E h \in Headers, o \in OrderIns : create_order(h, o)
    \/ \E w \in Workers, h \in Headers, d \in SignupIns : signup_event_find(w, h, d)
    \/ \E w \in Workers : signup_event_insert(w)
    \/ stats_overview
    \/ respond

Spec == Init /\ [][Next]_vars

(***************************************************************************)
(* Vocabulary of the properties.                                           *)
(***************************************************************************)
\* This step completed an exchange: its request and response are on record.
Served == req = NoRequest /\ req' # NoRequest

Privileged == {"create_meal", "create_event", "create_news", "get_event_signups"}

\* The identity a token's claims describe.
ClaimsOf(token) ==
    [_id   |-> token.payload.sub,
     role  |-> token.payload.role,
     email |-> token.payload.email,
     name  |-> token.payload.name]

\* The request of this step presented token t as its bearer credential.
Presents(t) == req'.authorization = <<"Bearer", t>>

EightHours == 8 * 60

Unauthenticated == [status |-> 401, body |-> [detail |-> "Not authenticated"]]
Forbidden == [status |-> 403, body |-> [detail |-> "Admin access required"]]
Expired == [status |-> 401, body |-> [detail |-> "Token expired"]]
InvalidCredentials == [status |-> 401, body |-> [detail |-> "Invalid credentials"]]

(***************************************************************************)
(* C1.  On every privileged endpoint (create meal, create event, create    *)
(* news, list event signups) a request carrying a valid, unexpired token   *)
(* whose role claim is not admin is answered 403 Forbidden, a request      *)
(* without Authorization header 401 Unauthenticated, and in neither case   *)
(* does the handler run: the store is left as it was.                      *)
(***************************************************************************)
C1_Step ==
    (Served /\ req'.op \in Privileged) =>
        /\ req'.authorization = << >> =>
               resp' = Unauthenticated /\ store' = store
        /\ \A r \in issued :
               (Presents(r.token) /\ now < r.token.payload.exp
                    /\ r.token.payload.role # "admin") =>
                   resp' = Forbidden /\ store' = store

C1_PrivilegedGate == [][C1_Step]_vars

C1_Witness ==
    /\ req.op \in Privileged
    /\ \E r \in issued :
           /\ req.authorization = <<"Bearer", r.token>>
           /\ r.token.payload.role # "admin"
           /\ now < r.token.payload.exp
    /\ resp = Forbidden

(***************************************************************************)
(* C2.  At most one signup document per (event, user) pair, in every       *)
(* reachable state, concurrent signup requests included.                   *)
(***************************************************************************)
SignupCount(coll, event_id, user_id) ==
    Cardinality({i \in DOMAIN coll :
                    coll[i].event_id = event_id /\ coll[i].user_id = user_id})

C2_AtMostOneSignup ==
    \A i \in DOMAIN event_signups :
        SignupCount(event_signups, event_signups[i].event_id,
                    event_signups[i].user_id) <= 1

(***************************************************************************)
(* C3.  Signups handled one after another are idempotent: the first        *)
(* signup of a user for an event inserts one document and returns its id,  *)
(* every later one returns the status already_signed, and the number of    *)
(* signups of that (event, user) is 1 afterwards.                          *)
(***************************************************************************)
C3_Step ==
    (Served /\ req'.op = "signup_event" /\ resp'.status = 200) =>
        LET e      == req'.body.event_id
            u      == current_user'[1]._id
            before == SignupCount(event_signups, e, u)
            after  == SignupCount(event_signups', e, u)
        IN  /\ after = 1
            /\ before = 0 =>
                   /\ Len(event_signups') = Len(event_signups) + 1
                   /\ resp'.body = [id |-> ToString(event_signups'[Len(event_signups')]._id)]
                   /\ event_signups'[Len(event_signups')].event_id = e
                   /\ event_signups'[Len(event_signups')].user_id = u
            /\ before >= 1 =>
                   /\ resp'.body = [status |-> "already_signed"]
                   /\ event_signups' = event_signups

C3_SequentialIdempotent == [][C3_Step]_vars

C3_Witness ==
    /\ req.op = "signup_event"
    /\ resp = [status |-> 200, body |-> [status |-> "already_signed"]]
    /\ current_user # << >>
    /\ SignupCount(event_signups, req.body.event_id, current_user[1]._id) = 1
    /\ Len(event_signups) >= 2

(***************************************************************************)
(* C4.  Login issues no token for invalid credentials: when the email      *)
(* matches no user, matches only an inactive user, or the password does    *)
(* not verify against the stored hash, the answer is 401 Invalid           *)
(* credentials and no token is made.                                       *)
(***************************************************************************)
ValidCredentials(r) ==
    \E i \in DOMAIN users :
        /\ users[i].email = r.email
        /\ users[i].active
        /\ users[i].password_hash = <<"bcrypt", r.password>>

C4_Step ==
    (Served /\ req'.op = "login" /\ ~ValidCredentials(req'.body)) =>
        /\ resp' = InvalidCredentials
        /\ issued' = issued

C4_NoTokenForInvalid == [][C4_Step]_vars

C4_Witness ==
    /\ req.op = "login"
    /\ resp = InvalidCredentials
    /\ issued = {}
    /\ \E i \in DOMAIN users :
           /\ users[i].email = req.body.email
           /\ users[i].password_hash = <<"bcrypt", req.body.password>>
           /\ ~users[i].active

(***************************************************************************)
(* C5.  Login/verify round trip: a login with the email and password of    *)
(* an active user returns a token whose claims are that user's id, role,   *)
(* email and name as stored at login, and the authentication gate, given   *)
(* a token that login returned, before its expiry, yields the identity     *)
(* those claims describe.                                                  *)
(***************************************************************************)
C5_Login ==
    (Served /\ req'.op = "login") =>
        \A i \in DOMAIN users :
            (/\ users[i].email = req'.body.email
             /\ users[i].active
             /\ users[i].password_hash = <<"bcrypt", req'.body.password>>) =>
                /\ resp'.status = 200
                /\ resp'.body.token_type = "bearer"
                /\ ClaimsOf(resp'.body.access_token) =
                       [_id   |-> ToString(users[i]._id),
                        role  |-> users[i].role,
                        email |-> users[i].email,
                        name  |-> users[i].name]
                /\ [token |-> resp'.body.access_token, at |-> now] \in issued'

C5_Gate ==
    (Served /\ req'.op \in Privileged) =>
        \A r \in issued :
            (Presents(r.token) /\ now < r.token.payload.exp) =>
                current_user' = <<ClaimsOf(r.token)>>

C5_RoundTrip == [][C5_Login /\ C5_Gate]_vars

C5_Witness ==
    /\ req.op \in Privileged
    /\ \E r \in issued :
           /\ req.authorization = <<"Bearer", r.token>>
           /\ current_user = <<ClaimsOf(r.token)>>
           /\ \E i \in DOMAIN users :
                  current_user[1] = [_id   |-> ToString(users[i]._id),
                                     role  |-> users[i].role,
                                     email |-> users[i].email,
                                     name  |-> users[i].name]

(***************************************************************************)
(* C6.  Token lifetime: a token issued by login at time t is accepted by   *)
(* the authentication gate at every time before t + 8 hours, and at every  *)
(* time after t + 8 hours it is rejected with Token expired, not with      *)
(* Invalid token.                                                          *)
(***************************************************************************)
C6_Step ==
    (Served /\ req'.op \in Privileged) =>
        \A r \in issued :
            Presents(r.token) =>
                /\ now < r.at + EightHours =>
                       current_user' # << >> /\ resp'.status # 401
                /\ now > r.at + EightHours =>
                       current_user' = << >> /\ resp' = Expired

C7_Step ==
    (Served /\ req'.op = "create_order" /\ resp'.status = 200) =>
        LET o == orders'[Len(orders')]
        IN  \A m \in DOMAIN meals :
                (ToString(meals[m]._id) = o.meal_id /\ o.quantity >= 1) =>
                    o.total_price = o.quantity * meals[m].price

C7_TotalFromReferencedMeal == [][C7_Step]_vars

(***************************************************************************)
(* C8.  Every persisted order has quantity >= 1 and total_price >= 0.      *)
(***************************************************************************)
C8_QuantityPositive ==
    \A i \in DOMAIN orders :
        orders[i].quantity >= 1 /\ orders[i].total_price >= 0

(***************************************************************************)
(* C9.  Stats overview: portions_sold is the sum of quantity over exactly  *)
(* the orders with status created, paid or fulfilled; waste_saved_kg is    *)
(* 0.15 times the sum of quantity over exactly the orders with status      *)
(* paid or fulfilled.                                                      *)
(***************************************************************************)
RECURSIVE QuantityOver(_)
QuantityOver(S) ==
    IF S = {} THEN 0
    ELSE LET i == CHOOSE j \in S : TRUE
         IN  orders[i].quantity + QuantityOver(S \ {i})

WithStatus(statuses) == {i \in DOMAIN orders : orders[i].status \in statuses}

C9_Step ==
    (Served /\ req'.op = "stats_overview") =>
        /\ resp'.status = 200
        /\ resp'.body.portions_sold =
               QuantityOver(WithStatus({"created", "paid", "fulfilled"}))
        /\ resp'.body.waste_saved_kg =
               150 * QuantityOver(WithStatus({"paid", "fulfilled"}))

C9_Stats == [][C9_Step]_vars

C9_Witness ==
    /\ req.op = "stats_overview"
    /\ WithStatus({"created"}) # {}
    /\ WithStatus({"paid", "fulfilled"}) # {}
    /\ resp.body.portions_sold =
           QuantityOver(WithStatus({"created", "paid", "fulfilled"}))
    /\ resp.body.waste_saved_kg = 150 * QuantityOver(WithStatus({"paid", "fulfilled"}))
    /\ resp.body.waste_saved_kg > 0
    /\ resp.body.portions_sold * 150 > resp.body.waste_saved_kg

(***************************************************************************)
(* C10.  The admin gate decides on the role claim of the token alone: a    *)
(* token issued with the admin role passes the gate on every privileged    *)
(* request before its expiry, whatever role and active flag the user       *)
(* store holds for that user by then, and is rejected after its expiry.    *)
(***************************************************************************)
C10_Step ==
    (Served /\ req'.op \in Privileged) =>
        \A r \in issued :
            (Presents(r.token) /\ r.token.payload.role = "admin") =>
                /\ now < r.token.payload.exp =>
                       resp'.status = 200 /\ current_user' = <<ClaimsOf(r.token)>>
                /\ now > r.token.payload.exp =>
                       resp' = Expired /\ store' = store

C10_StaleRolePasses == [][C10_Step]_vars

C10_Witness ==
    /\ req.op \in Privileged
    /\ resp.status = 200
    /\ \E r \in issued :
           /\ req.authorization = <<"Bearer", r.token>>
           /\ r.token.payload.role = "admin"
           /\ \E i \in DOMAIN users :
                  /\ ToString(users[i]._id) = r.token.payload.sub
                  /\ (users[i].role # "admin" \/ ~users[i].active)

====
